---- MODULE Spec2Model ----
(***************************************************************************)
(* mac-dash real-time distribution hub.                                    *)
(*                                                                         *)
(*   server/core/log-reader.ts  ref-counted `log stream` controller,       *)
(*                              listener set and ring buffer               *)
(*   server/ws/hub.ts           connection registry, broadcast, lazy log   *)
(*                              stream, poll timers with change cache      *)
(*   server/routes/logs.ts      REST idle gate (touch / 60 s expiry)       *)
(*                                                                         *)
(* One event loop: every handler, timer callback and promise continuation  *)
(* runs to completion, so each is one atomic action.  An `await` splits a  *)
(* poll tick in two actions (the tick, and the continuation).              *)
(***************************************************************************)
EXTENDS Integers, Sequences, FiniteSets, TLC

\* ---------------------------------------------------------------- bounds
MaxRecords == 2        \* log records read from the process in one run
MaxTicks   == 2        \* poll ticks (all topics together) in one run
MaxFanoutTicks == 1    \* the same, in the fan-out specification
MaxTimers  == 2        \* timer slots of the event loop
StepMs     == 15000    \* largest step of the clock
MaxAppends == 1050     \* log records read in the ring-buffer specification
MaxRefs    == 3        \* references held in the controller specification
MaxEvents  == 3        \* client messages, log records and ticks in the
                       \* message specification
MaxSends   == 4        \* messages sent to one connection there

\* ------------------------------------------------------ program constants
MAX_BUFFER    == 1000
IdleTimeoutMs == 60000
ProcessLimit  == 200

\* ------------------------------------------------------------- universes
Conn       == {"c1", "c2"}
PollTopics == {"system", "services", "processes"}
Topics     == PollTopics \cup {"logs", "*"}
TimerIds   == 1..MaxTimers
NoTimer    == 0
NotPending == -1
NullProc   == 0
LiveProc   == 1

\* topic lists a client sends in the lifecycle specification and in the
\* poll specification
StreamMsgTopics == {{"logs"}, {"*"}, {"system"}}
PollMsgTopics   == {{"system"}, {"services"}, {"processes"}, {"*"}}

VARIABLES
  \* log-reader.ts
  streamProcess,        \* NullProc or the handle of the spawned process
  streamRefCount,
  listeners,            \* set of registered callbacks ("hub")
  logBuffer,            \* sequence of records
  running,              \* `log stream` processes alive
  loops,                \* reader loops of processes that were not killed
  pending,              \* TRUE while the pipe of the held process holds a
                        \* line its reader loop has not read yet
  orphan,               \* TRUE while the pipe of a killed process holds a
                        \* line its reader loop has not read yet
  \* hub.ts
  clients,              \* registry: set of connections
  subscriptions,        \* ws.data.subscriptions of every socket
  logStreamActive,
  logUnsubscribe,       \* TRUE when the unsubscribe closure is held
  lastServicesJson,
  lastProcessesJson,
  pollingIntervals,     \* topics whose interval timer is installed
  inflight,             \* per topic: ticks whose provider call is awaited
  tickSeq,              \* per topic: ticks fired so far
  \* routes/logs.ts
  restLogStreamActive,
  restIdleTimer,        \* NoTimer or the id of the last timer created
  timers,               \* event loop: remaining ms of each timer slot
  \* environment
  open,                 \* sockets between their open and close events
  \* history
  sinceTouch,           \* ms since the last touch (-1: never touched)
  hubBalance,           \* starts minus stops issued by the hub
  gateBalance,          \* starts minus stops issued by the idle gate
  lastFetchJson,        \* per topic: payload of the last successful fetch
  lastBcastTick,        \* per topic: tick of the last snapshot broadcast
  lastFetchTick,        \* per topic: tick of the last successful fetch
  providerCalls,        \* per topic: provider invocations so far
  lastBroadcast,        \* the message of the last action's broadcast, if any
  appended,             \* records pushed to the ring buffer so far
  lastEvent,            \* what the last call of the controller or the last
                        \* step of the process was, see CtlEvent
  lastDelivery,         \* listeners called by the last action, and those of
                        \* them that threw
  lastRecent,           \* the response of the last action's GET /recent
  observed,             \* connections whose traffic is written down
  sent,                 \* per observed connection: the ws.send calls so far
  bcastCalls,           \* broadcast calls so far, while a connection is observed
  lastIn                \* the last message of an observed connection, numbered

vars == << streamProcess, streamRefCount, listeners, logBuffer, clients,
           subscriptions, logStreamActive, logUnsubscribe, lastServicesJson,
           lastProcessesJson, pollingIntervals, inflight, tickSeq,
           restLogStreamActive, restIdleTimer, timers, open, sinceTouch,
           hubBalance, gateBalance, lastFetchJson, lastBcastTick, lastFetchTick, providerCalls,
           lastBroadcast, running, loops, pending, orphan, appended, lastEvent,
           lastDelivery, lastRecent, observed, sent, bcastCalls, lastIn >>

procVars == << streamProcess, streamRefCount, running, loops, lastEvent >>
ctlVars  == << procVars, pending, orphan >>
gateVars == << restLogStreamActive, restIdleTimer, timers, sinceTouch,
               gateBalance >>
bufVars  == << logBuffer, appended >>
pollVars == << lastServicesJson, lastProcessesJson, inflight, tickSeq,
               lastFetchJson, lastBcastTick, lastFetchTick, providerCalls >>

Max(a, b) == IF a > b THEN a ELSE b
Min(a, b) == IF a < b THEN a ELSE b

\* ------------------------------------------------------- log-reader.ts
\* the controller state is the pair (streamRefCount, streamProcess);
\* `spawned` counts the processes the call has spawned
Ctl(rc, proc) == [rc |-> rc, proc |-> proc, spawned |-> 0]

\* variant: spawns without looking at the handle
startLogStream_alwaysSpawn(c, spawnOk) ==
  IF spawnOk
    THEN [Ctl(c.rc + 1, LiveProc) EXCEPT !.spawned = 1]
    ELSE Ctl(c.rc + 1, c.proc)

\* Bun.spawn either returns a handle or throws (caught at line 145); a
\* spawned process gets its reader loop (lines 116-144)
startLogStream(c, spawnOk) ==
  IF c.proc # NullProc
    THEN Ctl(c.rc + 1, c.proc)
    ELSE IF spawnOk
      THEN [Ctl(c.rc + 1, LiveProc) EXCEPT !.spawned = 1]
      ELSE Ctl(c.rc + 1, NullProc)

\* variant: kills the process whatever the count
stopLogStream_ignoreCount(c) == Ctl(Max(0, c.rc - 1), NullProc)

stopLogStream(c) ==
  LET n == Max(0, c.rc - 1)
  IN  IF n = 0 /\ c.proc # NullProc THEN Ctl(n, NullProc) ELSE Ctl(n, c.proc)

\* variant: a force stop releases one reference like stopLogStream
forceStopLogStream_decrements(c) ==
  LET n == Max(0, c.rc - 1)
  IN  IF n = 0 /\ c.proc # NullProc THEN Ctl(n, NullProc) ELSE Ctl(n, c.proc)

forceStopLogStream(c) == Ctl(0, NullProc)

\* onLogEntry and the closure it returns
onLogEntry(lst, cb) == lst \cup {cb}
unsubscribeLogEntry(lst, cb) == lst \ {cb}

\* getRecentLogs is logBuffer.slice(-count).  Array.prototype.slice(start):
\* a negative start counts from the end (floored at the first element), any
\* other start counts from the front; -0 is 0
ArraySlice(arr, start) ==
  LET len == Len(arr)
      k   == IF start < 0 THEN Max(len + start, 0) ELSE Min(start, len)
  IN  SubSeq(arr, k + 1, len)

getRecentLogs(buf, count) == ArraySlice(buf, 0 - count)

\* the calls singled out in the history: a stop at count zero, a start
\* while a handle is held and a force stop
CtlEvent(c, calls, last) ==
  IF calls = <<>> THEN last
  ELSE IF calls = <<"forceStop">> THEN "forceStop"
  ELSE IF calls = <<"stop">> /\ c.rc = 0 THEN "stopAtZero"
  ELSE IF calls = <<"start">> /\ c.proc # NullProc THEN "startHeld"
  ELSE "none"

\* kill() of the held handle: the call cleared a handle that was held
Killed(c, r) == c.proc # NullProc /\ r.proc = NullProc

\* ---------------------------------------------------------------- hub.ts
\* variant: no subscription filter
BroadcastTargets_unfiltered(topic, cl, subs) == cl

\* connections of cl a broadcast on topic is sent to
BroadcastTargets(topic, cl, subs) ==
  {c \in cl : topic \in subs[c] \/ "*" \in subs[c]}

\* variant: a send that throws ends the loop over the clients
broadcast_untilThrow(topic, type, cl, subs, failing) ==
  LET to == BroadcastTargets(topic, cl, subs)
  IN  [clients |-> cl \ (to \cap failing),
       msg     |-> [topic |-> topic, type |-> type,
                    to |-> IF to \cap failing = {} THEN to
                           ELSE to \cap failing]]

\* broadcast: send to every target; a send that throws evicts the target
\* (failing = the connections whose send throws now)
broadcast(topic, type, cl, subs, failing) ==
  LET to == BroadcastTargets(topic, cl, subs)
  IN  [clients |-> cl \ (to \cap failing),
       msg     |-> [topic |-> topic, type |-> type, to |-> to]]

\* variant: the wildcard is not counted
hasSubscribers_noWildcard(topic, cl, subs) ==
  \E c \in cl : topic \in subs[c]

hasSubscribers(topic, cl, subs) ==
  \E c \in cl : topic \in subs[c] \/ "*" \in subs[c]

hasLogSubscribers(cl, subs) == hasSubscribers("logs", cl, subs)

\* hub-side stream state
Hub(active, unsub, lst, c, calls) ==
  [active |-> active, unsub |-> unsub, listeners |-> lst, ctl |-> c,
   calls |-> calls]

\* variant: every evaluation with a logs subscriber takes a reference
ensureLogStream_everyTime(cl, subs, active, unsub, lst, c, spawnOk) ==
  IF hasLogSubscribers(cl, subs)
    THEN Hub(TRUE, TRUE, lst \cup {"hub"}, startLogStream(c, spawnOk),
             <<"start">>)
    ELSE IF active
      THEN Hub(FALSE, FALSE, IF unsub THEN lst \ {"hub"} ELSE lst,
               stopLogStream(c), <<"stop">>)
      ELSE Hub(active, unsub, lst, c, <<>>)

ensureLogStream(cl, subs, active, unsub, lst, c, spawnOk) ==
  IF hasLogSubscribers(cl, subs) /\ ~active
    THEN Hub(TRUE, TRUE, lst \cup {"hub"}, startLogStream(c, spawnOk),
             <<"start">>)
    ELSE IF ~hasLogSubscribers(cl, subs) /\ active
      THEN Hub(FALSE, FALSE, IF unsub THEN lst \ {"hub"} ELSE lst,
               stopLogStream(c), <<"stop">>)
      ELSE Hub(active, unsub, lst, c, <<>>)

\* stopPolling, the stream part: the hub releases its reference if it
\* holds one and removes its listener
stopPolling(active, unsub, lst, c) ==
  IF active
    THEN Hub(FALSE, FALSE, IF unsub THEN lst \ {"hub"} ELSE lst,
             stopLogStream(c), <<"stop">>)
    ELSE Hub(active, unsub, lst, c, <<>>)

Balance(calls) ==
  IF calls = <<"start">> THEN 1 ELSE IF calls = <<"stop">> THEN -1 ELSE 0

\* no broadcast was made
NoMsg == [topic |-> "none", type |-> "none", to |-> {}]

\* no GET /recent was answered
NoRecent == [count |-> -1, logs |-> <<>>]

\* no listener was called
NoDelivery == [to |-> {}, threw |-> {}]

\* no client message has been handled
NoIn == [n |-> 0, ws |-> "none", type |-> "none", isArray |-> FALSE,
         topics |-> {}, topic |-> "none"]

\* variant: the newest message overtakes the ones sent before
Deliver_overtaking(q, m) == <<m>> \o q

\* ws.send(message): the socket keeps the order of the calls
Deliver(q, m) == Append(q, m)

\* the messages of the server: the greeting of open, the acknowledgment of
\* a subscribe, the answer to a ping, and the data of a broadcast
OutMsg(kind, topics, topic, call, ok) ==
  [kind |-> kind, topics |-> topics, topic |-> topic, call |-> call,
   ok |-> ok]
Connected     == OutMsg("connected", {}, "none", 0, TRUE)
Subscribed(topics, ok) == OutMsg("subscribed", topics, "none", 0, ok)
Pong(ok)      == OutMsg("pong", {}, "none", 0, ok)
Data(topic, call, ok)  == OutMsg("data", {}, topic, call, ok)

\* one ws.send on the socket of ws
SendTo(ws, m) ==
  /\ sent' = IF ws \in observed THEN [sent EXCEPT ![ws] = Deliver(@, m)]
             ELSE sent
  /\ UNCHANGED << observed, bcastCalls >>

\* the sends of one broadcast call b (failing = the sends that throw)
Broadcasted(b, failing) ==
  /\ sent' = [c \in DOMAIN sent |->
                IF c \in b.msg.to \cap observed
                  THEN Deliver(sent[c], Data(b.msg.topic, bcastCalls + 1,
                                             c \notin failing))
                  ELSE sent[c]]
  /\ bcastCalls' = IF observed # {} THEN bcastCalls + 1 ELSE bcastCalls
  /\ UNCHANGED observed

\* the action sends nothing
NoTraffic == UNCHANGED << observed, sent, bcastCalls >>

\* the action calls no listener and answers no GET /recent
Silent == lastDelivery' = NoDelivery /\ lastRecent' = NoRecent
\* ... and broadcasts nothing
Mute   == lastBroadcast' = NoMsg /\ Silent
\* ... and sends nothing, and is not the handler of a client message
Quiet  == Mute /\ NoTraffic /\ UNCHANGED lastIn

\* the program after construction (index.ts has called startPolling)
Constructed ==
  /\ streamProcess = NullProc
  /\ streamRefCount = 0
  /\ listeners = {}
  /\ logBuffer = <<>>
  /\ clients = {}
  /\ subscriptions = [c \in Conn |-> {}]
  /\ logStreamActive = FALSE
  /\ logUnsubscribe = FALSE
  /\ lastServicesJson = <<>>
  /\ lastProcessesJson = <<>>
  /\ pollingIntervals = PollTopics
  /\ inflight = [t \in PollTopics |-> {}]
  /\ tickSeq = [t \in PollTopics |-> 0]
  /\ restLogStreamActive = FALSE
  /\ restIdleTimer = NoTimer
  /\ timers = [i \in TimerIds |-> NotPending]
  /\ open = {}
  /\ sinceTouch = -1
  /\ hubBalance = 0
  /\ gateBalance = 0
  /\ lastFetchJson = [t \in PollTopics |-> <<>>]
  /\ lastBcastTick = [t \in PollTopics |-> 0]
  /\ lastFetchTick = [t \in PollTopics |-> 0]
  /\ providerCalls = [t \in PollTopics |-> 0]
  /\ lastBroadcast = NoMsg
  /\ running = 0
  /\ loops = 0
  /\ pending = FALSE
  /\ orphan = FALSE
  /\ appended = 0
  /\ lastEvent = "none"
  /\ lastDelivery = NoDelivery
  /\ lastRecent = NoRecent
  /\ sent = [c \in Conn |-> <<>>]
  /\ bcastCalls = 0
  /\ lastIn = NoIn

\* no connection is observed
Init == Constructed /\ observed = {}

\* a controller call seen from the operating system: a spawn adds a process
\* and its reader loop; a kill ends the process (if it has not already
\* ended), and its reader loop goes on until the pipe reports done, so a
\* line that is in the pipe at the kill is still read
ApplyCtl(r, calls) ==
  LET c == Ctl(streamRefCount, streamProcess)
  IN  /\ streamRefCount' = r.rc
      /\ streamProcess' = r.proc
      /\ running' = (IF Killed(c, r) /\ running > 0 THEN running - 1
                     ELSE running) + r.spawned
      /\ loops' = (IF Killed(c, r) THEN 0 ELSE loops) + r.spawned
      /\ pending' = (pending /\ ~Killed(c, r))
      /\ orphan' = (orphan \/ (Killed(c, r) /\ loops > 0 /\ pending))
      /\ lastEvent' = CtlEvent(c, calls, lastEvent)

\* the hub part of a handler that ends with ensureLogStream()
ApplyEnsure(cl, subs, spawnOk) ==
  LET h == ensureLogStream(cl, subs, logStreamActive, logUnsubscribe,
                           listeners, Ctl(streamRefCount, streamProcess),
                           spawnOk)
  IN  /\ logStreamActive' = h.active
      /\ logUnsubscribe' = h.unsub
      /\ listeners' = h.listeners
      /\ ApplyCtl(h.ctl, h.calls)
      /\ hubBalance' = hubBalance + Balance(h.calls)

\* variant: the subscription set of an earlier open is kept
wsOpen_keepsSubscriptions(ws) ==
  /\ ws \notin open
  /\ open' = open \cup {ws}
  /\ clients' = clients \cup {ws}
  /\ Mute
  /\ SendTo(ws, Connected)
  /\ UNCHANGED lastIn
  /\ UNCHANGED << ctlVars, listeners, bufVars, logStreamActive,
                  logUnsubscribe, pollingIntervals, pollVars, gateVars,
                  hubBalance, subscriptions >>

\* wsHandler.open: a throwing send leaves the handler after the add
wsOpen(ws) ==
  /\ ws \notin open
  /\ open' = open \cup {ws}
  /\ subscriptions' = [subscriptions EXCEPT ![ws] = {}]
  /\ clients' = clients \cup {ws}
  /\ Mute
  /\ SendTo(ws, Connected)
  /\ UNCHANGED lastIn
  /\ UNCHANGED << ctlVars, listeners, bufVars, logStreamActive,
                  logUnsubscribe, pollingIntervals, pollVars, gateVars,
                  hubBalance >>

\* wsHandler.message, case "subscribe": the acknowledgment is sent before
\* ensureLogStream(); if the send throws, the outer catch swallows it
\* variant: the acknowledgment names the topics of the message only
AckTopics_named(subs, ws, topics) == topics

\* Array.from(ws.data.subscriptions), as a set
AckTopics(subs, ws, topics) == subs[ws]

\* variant: the acknowledgment is followed by the data of the last broadcast
subscribeCase_backfills(ws, topics, ackFails, spawnOk) ==
  /\ ws \in open
  /\ LET subs == [subscriptions EXCEPT ![ws] = @ \cup topics]
     IN  /\ subscriptions' = subs
         /\ sent' = IF ws \in observed
                      THEN [sent EXCEPT ![ws] =
                              Deliver(Deliver(@, Subscribed(subs[ws], TRUE)),
                                      Data("logs", bcastCalls, TRUE))]
                      ELSE sent
         /\ UNCHANGED << observed, bcastCalls >>
         /\ IF ackFails
              THEN UNCHANGED << ctlVars, listeners, logStreamActive,
                                logUnsubscribe, hubBalance >>
              ELSE ApplyEnsure(clients, subs, spawnOk)
  /\ Mute
  /\ UNCHANGED << bufVars, clients, pollingIntervals, pollVars, gateVars,
                  open >>

subscribeCase(ws, topics, ackFails, spawnOk) ==
  /\ ws \in open
  /\ LET subs == [subscriptions EXCEPT ![ws] = @ \cup topics]
     IN  /\ subscriptions' = subs
         /\ SendTo(ws, Subscribed(AckTopics(subs, ws, topics), ~ackFails))
         /\ IF ackFails
              THEN UNCHANGED << ctlVars, listeners, logStreamActive,
                                logUnsubscribe, hubBalance >>
              ELSE ApplyEnsure(clients, subs, spawnOk)
  /\ Mute
  /\ UNCHANGED << bufVars, clients, pollingIntervals, pollVars, gateVars,
                  open >>

\* a subscribe message with a list of topics
wsSubscribe(ws, topics, ackFails, spawnOk) ==
  /\ subscribeCase(ws, topics, ackFails, spawnOk)
  /\ UNCHANGED lastIn

\* wsHandler.message, case "unsubscribe"
\* variant: an unsubscribe forgets the cached payloads
unsubscribeCase_clearsCache(ws, topics, spawnOk) ==
  /\ ws \in open
  /\ LET subs == [subscriptions EXCEPT ![ws] = @ \ topics]
     IN  /\ subscriptions' = subs
         /\ ApplyEnsure(clients, subs, spawnOk)
  /\ lastServicesJson' = <<>>
  /\ lastProcessesJson' = <<>>
  /\ Mute
  /\ NoTraffic
  /\ UNCHANGED << bufVars, clients, pollingIntervals, inflight, tickSeq,
                  lastFetchJson, lastBcastTick, lastFetchTick, providerCalls,
                  gateVars, open >>

unsubscribeCase(ws, topics, spawnOk) ==
  /\ ws \in open
  /\ LET subs == [subscriptions EXCEPT ![ws] = @ \ topics]
     IN  /\ subscriptions' = subs
         /\ ApplyEnsure(clients, subs, spawnOk)
  /\ Mute
  /\ NoTraffic
  /\ UNCHANGED << bufVars, clients, pollingIntervals, pollVars, gateVars,
                  open >>

\* an unsubscribe message with a list of topics
wsUnsubscribe(ws, topics, spawnOk) ==
  /\ unsubscribeCase(ws, topics, spawnOk)
  /\ UNCHANGED lastIn

\* wsHandler.message, case "ping"
pingCase(ws, sendFails) ==
  /\ ws \in open
  /\ SendTo(ws, Pong(~sendFails))
  /\ Mute
  /\ UNCHANGED << ctlVars, listeners, bufVars, clients, subscriptions,
                  logStreamActive, logUnsubscribe, pollingIntervals,
                  pollVars, gateVars, open, hubBalance >>

\* wsHandler.message when JSON.parse throws or no case matches msg.type
ignoredCase(ws) ==
  /\ ws \in open
  /\ Mute
  /\ NoTraffic
  /\ UNCHANGED << ctlVars, listeners, bufVars, clients, subscriptions,
                  logStreamActive, logUnsubscribe, pollingIntervals,
                  pollVars, gateVars, open, hubBalance >>

\* the value no field holds
Undefined == "undefined"

\* a client message after JSON.parse: its type ("unparseable" when the
\* parse throws), whether msg.topics is an array, msg.topics and msg.topic
ClientMsg(type, isArray, topics, topic) ==
  [type |-> type, isArray |-> isArray, topics |-> topics, topic |-> topic]

\* lines 171-173 and 190-192: the list of topics of a message
TopicsOf(msg) == IF msg.isArray THEN msg.topics ELSE {msg.topic}

\* wsHandler.message
wsMessage(ws, msg, sendFails, spawnOk) ==
  /\ lastIn' = IF ws \in observed
                 THEN [n |-> lastIn.n + 1, ws |-> ws, type |-> msg.type,
                       isArray |-> msg.isArray, topics |-> msg.topics,
                       topic |-> msg.topic]
                 ELSE lastIn
  /\ CASE msg.type = "subscribe" ->
            subscribeCase(ws, TopicsOf(msg), sendFails, spawnOk)
       [] msg.type = "unsubscribe" ->
            unsubscribeCase(ws, TopicsOf(msg), spawnOk)
       [] msg.type = "ping" -> pingCase(ws, sendFails)
       [] OTHER -> ignoredCase(ws)

\* wsHandler.close
\* variant: the connection stays in the registry
wsClose_keepsClient(ws, spawnOk) ==
  /\ ws \in open
  /\ open' = open \ {ws}
  /\ clients' = clients
  /\ ApplyEnsure(clients, subscriptions, spawnOk)
  /\ Quiet
  /\ UNCHANGED << bufVars, subscriptions, pollingIntervals, pollVars,
                  gateVars >>

wsClose(ws, spawnOk) ==
  /\ ws \in open
  /\ open' = open \ {ws}
  /\ clients' = clients \ {ws}
  /\ ApplyEnsure(clients \ {ws}, subscriptions, spawnOk)
  /\ Quiet
  /\ UNCHANGED << bufVars, subscriptions, pollingIntervals, pollVars,
                  gateVars >>

\* reader loop of startLogStream, one parsed line: push to the ring buffer,
\* trim to MAX_BUFFER, then call every listener; the hub's listener
\* broadcasts the entry on "logs"
\* variant: keeps the oldest MAX_BUFFER records
TrimBuffer_keepOldest(buf) ==
  IF Len(buf) > MAX_BUFFER THEN SubSeq(buf, 1, MAX_BUFFER) ELSE buf

TrimBuffer(buf) ==
  IF Len(buf) > MAX_BUFFER
    THEN SubSeq(buf, Len(buf) - MAX_BUFFER + 1, Len(buf))
    ELSE buf

\* variant: a listener that throws ends the loop over the listeners
Delivered_untilThrow(lst, throwing) ==
  IF lst \cap throwing = {} THEN lst ELSE lst \cap throwing

\* the listeners the loop of lines 133-137 calls: every one, a throw is
\* caught per listener (throwing = the listeners that throw now)
Delivered(lst, throwing) == lst

\* src tells which reader loop has read the line: the one of the process
\* held now ("current": the process writes the line now, or the line was
\* in the pipe) or the one of a process that was killed ("orphan"); the
\* loop never looks at streamProcess
readLogEntry(src, failing, throwing) ==
  /\ IF src = "orphan" THEN orphan ELSE loops > 0 /\ (running > 0 \/ pending)
  /\ pending' = IF src = "orphan" THEN pending ELSE FALSE
  /\ orphan' = IF src = "orphan" THEN FALSE ELSE orphan
  /\ appended' = appended + 1
  /\ logBuffer' = TrimBuffer(Append(logBuffer, appended + 1))
  /\ lastDelivery' = [to |-> Delivered(listeners, throwing), threw |-> throwing]
  /\ lastRecent' = NoRecent
  /\ LET b == broadcast("logs", "update", clients, subscriptions, failing)
     IN  IF "hub" \in Delivered(listeners, throwing)
           THEN /\ clients' = b.clients
                /\ lastBroadcast' = b.msg
                /\ Broadcasted(b, failing)
           ELSE /\ clients' = clients
                /\ lastBroadcast' = NoMsg
                /\ NoTraffic
  /\ UNCHANGED lastIn
  /\ UNCHANGED << procVars, listeners, subscriptions, logStreamActive,
                  logUnsubscribe, pollingIntervals, pollVars, gateVars,
                  open, hubBalance >>

\* -------------------------------------------------------- routes/logs.ts
Gate(active, timer, tm, c, calls) ==
  [active |-> active, timer |-> timer, timers |-> tm, ctl |-> c,
   calls |-> calls]

\* clearTimeout / setTimeout of the event loop
ClearTimeout(tm, id) ==
  IF id # NoTimer THEN [tm EXCEPT ![id] = NotPending] ELSE tm

FreeSlot(tm) == CHOOSE i \in TimerIds :
                  /\ tm[i] = NotPending
                  /\ \A j \in TimerIds : tm[j] = NotPending => i <= j

\* variant: starts on every touch
touchRestLogStream_alwaysStart(active, timer, tm, c, spawnOk) ==
  LET cleared == ClearTimeout(tm, timer)
      id      == FreeSlot(cleared)
  IN  Gate(TRUE, id, [cleared EXCEPT ![id] = IdleTimeoutMs],
           startLogStream(c, spawnOk), <<"start">>)

touchRestLogStream(active, timer, tm, c, spawnOk) ==
  LET c1      == IF ~active THEN startLogStream(c, spawnOk) ELSE c
      calls   == IF ~active THEN <<"start">> ELSE <<>>
      cleared == ClearTimeout(tm, timer)
      id      == FreeSlot(cleared)
  IN  Gate(TRUE, id, [cleared EXCEPT ![id] = IdleTimeoutMs], c1, calls)

\* the callback given to setTimeout
restIdleExpired(active, timer, tm, c) ==
  Gate(FALSE, timer, tm, stopLogStream(c), <<"stop">>)

ApplyGate(g) ==
  /\ restLogStreamActive' = g.active
  /\ restIdleTimer' = g.timer
  /\ timers' = g.timers
  /\ ApplyCtl(g.ctl, g.calls)
  /\ gateBalance' = gateBalance + Balance(g.calls)

\* the touchRestLogStream() call that opens both handlers of the router
restTouched(spawnOk) ==
  /\ \E i \in TimerIds : ClearTimeout(timers, restIdleTimer)[i] = NotPending
  /\ LET g == touchRestLogStream(restLogStreamActive, restIdleTimer, timers,
                                 Ctl(streamRefCount, streamProcess), spawnOk)
     IN  ApplyGate(g)
  /\ sinceTouch' = 0
  /\ UNCHANGED << listeners, bufVars, clients, subscriptions,
                  logStreamActive, logUnsubscribe, pollingIntervals,
                  pollVars, open, hubBalance >>

\* GET /active-processes (and GET /recent, when the response is not looked at)
restTouch(spawnOk) ==
  /\ restTouched(spawnOk)
  /\ Quiet

\* GET /recent?count=n without a process filter: touch, then answer with
\* getRecentLogs(count)
restRecent(count, spawnOk) ==
  /\ restTouched(spawnOk)
  /\ lastRecent' = [count |-> count, logs |-> getRecentLogs(logBuffer, count)]
  /\ lastBroadcast' = NoMsg
  /\ lastDelivery' = NoDelivery
  /\ NoTraffic
  /\ UNCHANGED lastIn

\* a timer whose delay has elapsed runs its callback
timerFires(id) ==
  /\ timers[id] = 0
  /\ LET g == restIdleExpired(restLogStreamActive, restIdleTimer,
                              [timers EXCEPT ![id] = NotPending],
                              Ctl(streamRefCount, streamProcess))
     IN  ApplyGate(g)
  /\ Quiet
  /\ UNCHANGED << listeners, bufVars, clients, subscriptions,
                  logStreamActive, logUnsubscribe, pollingIntervals,
                  pollVars, open, hubBalance, sinceTouch >>

\* time passes, at most StepMs and never past the next timer deadline
Pending == {i \in TimerIds : timers[i] # NotPending}
MinRemaining ==
  CHOOSE r \in {timers[i] : i \in Pending} :
    \A i \in Pending : r <= timers[i]

advanceClock ==
  /\ Pending # {}
  /\ \A i \in Pending : timers[i] > 0
  /\ LET d == Min(StepMs, MinRemaining)
     IN  /\ timers' = [i \in TimerIds |->
                         IF i \in Pending THEN timers[i] - d ELSE timers[i]]
         /\ sinceTouch' = IF sinceTouch >= 0 THEN sinceTouch + d
                          ELSE sinceTouch
  /\ Quiet
  /\ UNCHANGED << ctlVars, listeners, bufVars, clients, subscriptions,
                  logStreamActive, logUnsubscribe, pollingIntervals,
                  pollVars, open, hubBalance, gateBalance,
                  restLogStreamActive, restIdleTimer >>

\* ------------------------------------------------- lifecycle specification
Open        == \E ws \in Conn : wsOpen(ws)
Subscribe   == \E ws \in Conn, ts \in StreamMsgTopics, f, ok \in BOOLEAN :
                 wsSubscribe(ws, ts, f, ok)
Unsubscribe == \E ws \in Conn, ts \in StreamMsgTopics, ok \in BOOLEAN :
                 wsUnsubscribe(ws, ts, ok)
Close       == \E ws \in Conn, ok \in BOOLEAN : wsClose(ws, ok)
LogEntry    == \E failing \in SUBSET clients :
                 appended < MaxRecords /\ readLogEntry("current", failing, {})
Touch       == \E ok \in BOOLEAN : restTouch(ok)
Expire      == \E id \in TimerIds : timerFires(id)
Advance     == advanceClock

\* stopPolling(): every interval is cleared, then the stream part
hubStopPolling ==
  /\ pollingIntervals' = {}
  /\ LET h == stopPolling(logStreamActive, logUnsubscribe, listeners,
                          Ctl(streamRefCount, streamProcess))
     IN  /\ logStreamActive' = h.active
         /\ logUnsubscribe' = h.unsub
         /\ listeners' = h.listeners
         /\ ApplyCtl(h.ctl, h.calls)
         /\ hubBalance' = hubBalance + Balance(h.calls)
  /\ Quiet
  /\ UNCHANGED << bufVars, clients, subscriptions, pollVars, gateVars,
                  open >>

StopPolling == hubStopPolling

Next == Open \/ Subscribe \/ Unsubscribe \/ Close \/ LogEntry \/ Touch
          \/ Expire \/ Advance

Spec == Init /\ [][Next]_vars

\* the same server with stopPolling, which the module exports
ShutdownNext == Next \/ StopPolling

ShutdownSpec == Init /\ [][ShutdownNext]_vars

\* ------------------------------------------------------ hub.ts, polling
\* what a provider resolves to: a list of values (NaN is a number that
\* JSON.stringify writes as null)
Values   == {"1", "NaN", "null"}
Payloads == {<< v >> : v \in Values}

StringifyValue(v) == IF v = "NaN" THEN "null" ELSE v

\* JSON.stringify of a list, as a sequence of tokens; the empty sequence is
\* the empty string the caches start with
JSONstringify(data) ==
  << "[" >> \o [i \in DOMAIN data |-> StringifyValue(data[i])] \o << "]" >>

\* processes.slice(0, 200)
Slice(data, n) == SubSeq(data, 1, Min(Len(data), n))

\* variant: no comparison with the cache
PayloadChanged_always(json, last) == TRUE

\* json !== lastServicesJson, json !== lastProcessesJson
PayloadChanged(json, last) == json # last

TotalTicks == tickSeq["system"] + tickSeq["services"] + tickSeq["processes"]

\* an interval timer fires: the callback runs up to its await
pollTick(t) ==
  /\ t \in pollingIntervals
  /\ tickSeq' = [tickSeq EXCEPT ![t] = @ + 1]
  /\ IF hasSubscribers(t, clients, subscriptions)
       THEN /\ inflight' = [inflight EXCEPT ![t] = @ \cup {tickSeq[t] + 1}]
            /\ providerCalls' = [providerCalls EXCEPT ![t] = @ + 1]
       ELSE UNCHANGED << inflight, providerCalls >>
  /\ Quiet
  /\ UNCHANGED << ctlVars, listeners, bufVars, clients, subscriptions,
                  logStreamActive, logUnsubscribe, lastServicesJson,
                  lastProcessesJson, pollingIntervals, lastFetchJson,
                  lastBcastTick, lastFetchTick, gateVars, open, hubBalance >>

\* the part of a tick's callback after the await, provider resolved
Snapshot(t, n, json, data, failing, send) ==
  LET b == broadcast(t, "snapshot", clients, subscriptions, failing)
  IN  /\ lastFetchJson' = [lastFetchJson EXCEPT ![t] = json]
      /\ lastFetchTick' = [lastFetchTick EXCEPT ![t] = n]
      /\ IF send
           THEN /\ clients' = b.clients
                /\ lastBcastTick' = [lastBcastTick EXCEPT ![t] = n]
                /\ lastBroadcast' = b.msg
                /\ Broadcasted(b, failing)
           ELSE /\ clients' = clients
                /\ lastBcastTick' = lastBcastTick
                /\ lastBroadcast' = NoMsg
                /\ NoTraffic
      /\ Silent
      /\ UNCHANGED lastIn

systemFetched(n, data, failing) ==
  /\ n \in inflight["system"]
  /\ inflight' = [inflight EXCEPT !["system"] = @ \ {n}]
  /\ Snapshot("system", n, JSONstringify(data), data, failing, TRUE)
  /\ UNCHANGED << lastServicesJson, lastProcessesJson >>

servicesFetched(n, data, failing) ==
  /\ n \in inflight["services"]
  /\ inflight' = [inflight EXCEPT !["services"] = @ \ {n}]
  /\ LET json == JSONstringify(data)
     IN  /\ Snapshot("services", n, json, data, failing,
                     PayloadChanged(json, lastServicesJson))
         /\ lastServicesJson' = IF PayloadChanged(json, lastServicesJson)
                                  THEN json ELSE lastServicesJson
  /\ UNCHANGED lastProcessesJson

processesFetched(n, data, failing) ==
  /\ n \in inflight["processes"]
  /\ inflight' = [inflight EXCEPT !["processes"] = @ \ {n}]
  /\ LET sliced == Slice(data, ProcessLimit)
         json   == JSONstringify(sliced)
     IN  /\ Snapshot("processes", n, json, sliced, failing,
                     PayloadChanged(json, lastProcessesJson))
         /\ lastProcessesJson' = IF PayloadChanged(json, lastProcessesJson)
                                   THEN json ELSE lastProcessesJson
  /\ UNCHANGED lastServicesJson

pollFetched(t, n, data, failing) ==
  /\ CASE t = "system"    -> systemFetched(n, data, failing)
       [] t = "services"  -> servicesFetched(n, data, failing)
       [] t = "processes" -> processesFetched(n, data, failing)
  /\ UNCHANGED << ctlVars, listeners, bufVars, subscriptions,
                  logStreamActive, logUnsubscribe, pollingIntervals,
                  tickSeq, providerCalls, gateVars, open, hubBalance >>

\* variant: a failure forgets the cached payloads
pollFailed_clearsCache(t, n) ==
  /\ n \in inflight[t]
  /\ inflight' = [inflight EXCEPT ![t] = @ \ {n}]
  /\ lastServicesJson' = <<>>
  /\ lastProcessesJson' = <<>>
  /\ Quiet
  /\ UNCHANGED << ctlVars, listeners, bufVars, clients, subscriptions,
                  logStreamActive, logUnsubscribe, pollingIntervals, tickSeq,
                  lastFetchJson, lastBcastTick, lastFetchTick, providerCalls,
                  gateVars, open, hubBalance >>

\* the provider rejected: the catch logs the error
pollFailed(t, n) ==
  /\ n \in inflight[t]
  /\ inflight' = [inflight EXCEPT ![t] = @ \ {n}]
  /\ Quiet
  /\ UNCHANGED << ctlVars, listeners, bufVars, clients, subscriptions,
                  logStreamActive, logUnsubscribe, lastServicesJson,
                  lastProcessesJson, pollingIntervals, tickSeq,
                  lastFetchJson, lastBcastTick, lastFetchTick, providerCalls,
                  gateVars, open, hubBalance >>

\* ------------------------------------------------------ poll specification
\* one connection, every poll topic, overlapping provider calls
TickNos  == 1..(MaxTicks + MaxFanoutTicks)
PollConn == {"c1"}

PollOpen        == \E ws \in PollConn : wsOpen(ws)
PollSubscribe   == \E ws \in PollConn, ts \in PollMsgTopics, f, ok \in BOOLEAN :
                     wsSubscribe(ws, ts, f, ok)
PollUnsubscribe == \E ws \in PollConn, ts \in PollMsgTopics, ok \in BOOLEAN :
                     wsUnsubscribe(ws, ts, ok)
PollClose       == \E ws \in PollConn, ok \in BOOLEAN : wsClose(ws, ok)
Tick            == \E t \in PollTopics : TotalTicks < MaxTicks /\ pollTick(t)
Fetched         == \E t \in PollTopics, n \in TickNos, data \in Payloads,
                      failing \in SUBSET clients :
                     pollFetched(t, n, data, failing)
FetchFailed     == \E t \in PollTopics, n \in TickNos : pollFailed(t, n)

PollNext == PollOpen \/ PollSubscribe \/ PollUnsubscribe \/ PollClose
              \/ Tick \/ Fetched \/ FetchFailed

PollSpec == Init /\ [][PollNext]_vars

\* --------------------------------------------------- fan-out specification
\* two connections, both kinds of broadcast (log updates and snapshots)
FanoutMsgTopics == {{"logs"}, {"services"}, {"*"}}

FanoutSubscribe   == \E ws \in Conn, ts \in FanoutMsgTopics, f, ok \in BOOLEAN :
                       wsSubscribe(ws, ts, f, ok)
FanoutUnsubscribe == \E ws \in Conn, ts \in FanoutMsgTopics, ok \in BOOLEAN :
                       wsUnsubscribe(ws, ts, ok)
FanoutTick        == \E t \in PollTopics :
                       TotalTicks < MaxFanoutTicks /\ pollTick(t)
FanoutLogEntry    == \E failing \in SUBSET clients :
                       appended < 1 /\ readLogEntry("current", failing, {})

FanoutNext == Open \/ FanoutSubscribe \/ FanoutUnsubscribe \/ Close
                \/ FanoutTick \/ Fetched \/ FetchFailed \/ FanoutLogEntry

FanoutSpec == Init /\ [][FanoutNext]_vars

\* --------------------------------------------------- message specification
\* two connections, one of them observed, every form of client message, log
\* updates and snapshots
ClientMsgs ==
  { ClientMsg("subscribe", TRUE, {"logs"}, Undefined),
    ClientMsg("subscribe", TRUE, {"services"}, Undefined),
    ClientMsg("subscribe", FALSE, {}, Undefined),
    ClientMsg("subscribe", FALSE, {}, "logs"),
    ClientMsg("unsubscribe", TRUE, {"logs"}, Undefined),
    ClientMsg("unsubscribe", FALSE, {}, Undefined),
    ClientMsg("ping", FALSE, {}, Undefined),
    ClientMsg("other", FALSE, {}, Undefined),
    ClientMsg("unparseable", FALSE, {}, Undefined) }

\* room for one more send on every observed socket
Room == \A c \in observed : Len(sent[c]) < MaxSends

\* observed client messages, log records and ticks so far
Events == lastIn.n + appended + TotalTicks

MsgInit == Constructed /\ observed = PollConn

MsgOpen     == \E ws \in Conn : Room /\ wsOpen(ws)
MsgMessage  == \E ws \in observed, msg \in ClientMsgs, f \in BOOLEAN :
                 Room /\ Events < MaxEvents /\ wsMessage(ws, msg, f, TRUE)
MsgPeer     == \E ws \in Conn \ observed : wsSubscribe(ws, {"logs"}, FALSE, TRUE)
MsgLogEntry == \E failing \in SUBSET clients :
                 Room /\ Events < MaxEvents
                   /\ readLogEntry("current", failing, {})
MsgTick     == Events < MaxEvents /\ pollTick("services")
MsgFetched  == \E n \in 1..MaxEvents, failing \in SUBSET clients :
                 Room /\ pollFetched("services", n, <<"1">>, failing)

MsgNext == MsgOpen \/ MsgMessage \/ MsgPeer \/ Close \/ MsgLogEntry
             \/ MsgTick \/ MsgFetched

MsgSpec == MsgInit /\ [][MsgNext]_vars

\* ----------------------------------------------------- cache specification
\* one observed connection that subscribes to the cached topics, leaves and
\* comes back while the interval timers keep firing
CacheMsgTopics == {{"services"}, {"processes"}}

CacheRoom == \A c \in observed : Len(sent[c]) <= MaxSends

CacheOpen        == \E ws \in PollConn : CacheRoom /\ wsOpen(ws)
CacheSubscribe   == \E ws \in PollConn, ts \in CacheMsgTopics :
                      CacheRoom /\ wsSubscribe(ws, ts, FALSE, TRUE)
CacheUnsubscribe == \E ws \in PollConn, ts \in CacheMsgTopics :
                      wsUnsubscribe(ws, ts, TRUE)
CacheTick        == \E t \in {"services", "processes"} :
                      TotalTicks < MaxTicks /\ pollTick(t)
CacheFetched     == \E t \in {"services", "processes"}, n \in TickNos,
                       data \in Payloads :
                      CacheRoom /\ pollFetched(t, n, data, {})

CacheNext == CacheOpen \/ CacheSubscribe \/ CacheUnsubscribe \/ PollClose
               \/ CacheTick \/ CacheFetched

CacheSpec == MsgInit /\ [][CacheNext]_vars

\* ----------------------------------------------- ring-buffer specification
\* the REST routes alone: the stream runs for the idle gate and the buffer
\* is filled past MAX_BUFFER
RecentCounts == {0, 1, MAX_BUFFER}

BufferRecent   == \E count \in RecentCounts, ok \in BOOLEAN :
                    restRecent(count, ok)
BufferLogEntry == appended < MaxAppends /\ readLogEntry("current", {}, {})

BufferNext == Touch \/ BufferRecent \/ BufferLogEntry

BufferSpec == Init /\ [][BufferNext]_vars

\* ------------------------------------------- log-reader.ts, direct callers
\* the exported functions called by any module, and what the process and
\* its pipe do on their own
Callbacks == {"cb1", "cb2"}

ctlFrame ==
  UNCHANGED << bufVars, clients, subscriptions, logStreamActive,
               logUnsubscribe, pollingIntervals, pollVars, gateVars, open,
               hubBalance >>

ctlStart(spawnOk) ==
  /\ ApplyCtl(startLogStream(Ctl(streamRefCount, streamProcess), spawnOk),
              <<"start">>)
  /\ Quiet
  /\ UNCHANGED listeners
  /\ ctlFrame

\* variant: no floor at zero
ctlStop_noFloor ==
  /\ ApplyCtl(Ctl(streamRefCount - 1,
                  IF streamRefCount = 1 THEN NullProc ELSE streamProcess),
              <<"stop">>)
  /\ Quiet
  /\ UNCHANGED listeners
  /\ ctlFrame

ctlStop ==
  /\ ApplyCtl(stopLogStream(Ctl(streamRefCount, streamProcess)), <<"stop">>)
  /\ Quiet
  /\ UNCHANGED listeners
  /\ ctlFrame

\* variant: a forced stop forgets the listeners and the buffer
ctlForceStop_clearsAll ==
  /\ ApplyCtl(forceStopLogStream(Ctl(streamRefCount, streamProcess)),
              <<"forceStop">>)
  /\ Quiet
  /\ listeners' = {}
  /\ logBuffer' = <<>>
  /\ UNCHANGED << appended, clients, subscriptions, logStreamActive,
                  logUnsubscribe, pollingIntervals, pollVars, gateVars, open,
                  hubBalance >>

ctlForceStop ==
  /\ ApplyCtl(forceStopLogStream(Ctl(streamRefCount, streamProcess)),
              <<"forceStop">>)
  /\ Quiet
  /\ UNCHANGED listeners
  /\ ctlFrame

ctlOnLogEntry(cb) ==
  /\ listeners' = onLogEntry(listeners, cb)
  /\ Quiet
  /\ UNCHANGED ctlVars
  /\ ctlFrame

\* the closure onLogEntry(cb) returned
ctlUnsubscribe(cb) ==
  /\ cb \in listeners
  /\ listeners' = unsubscribeLogEntry(listeners, cb)
  /\ Quiet
  /\ UNCHANGED ctlVars
  /\ ctlFrame

\* the process writes a line that stays in the pipe for now
processWrites ==
  /\ running > 0 /\ loops > 0 /\ ~pending
  /\ pending' = TRUE
  /\ Quiet
  /\ UNCHANGED << procVars, orphan, listeners >>
  /\ ctlFrame

\* the process ends on its own
processExits ==
  /\ running > 0
  /\ running' = running - 1
  /\ lastEvent' = "exit"
  /\ Quiet
  /\ UNCHANGED << streamProcess, streamRefCount, loops, pending, orphan,
                  listeners >>
  /\ ctlFrame

\* variant: the end of the stream clears the controller
readerEnds_reconciles(src) ==
  /\ IF src = "orphan" THEN orphan ELSE loops > 0
  /\ loops' = IF src = "orphan" THEN loops ELSE loops - 1
  /\ pending' = IF src = "orphan" THEN pending ELSE FALSE
  /\ orphan' = IF src = "orphan" THEN FALSE ELSE orphan
  /\ streamProcess' = NullProc
  /\ streamRefCount' = 0
  /\ lastEvent' = "readerEnd"
  /\ Quiet
  /\ UNCHANGED << running, listeners >>
  /\ ctlFrame

\* a reader loop ends: read() reported done (line 120) or threw (line 141)
readerEnds(src) ==
  /\ IF src = "orphan" THEN orphan ELSE loops > 0
  /\ loops' = IF src = "orphan" THEN loops ELSE loops - 1
  /\ pending' = IF src = "orphan" THEN pending ELSE FALSE
  /\ orphan' = IF src = "orphan" THEN FALSE ELSE orphan
  /\ lastEvent' = "readerEnd"
  /\ Quiet
  /\ UNCHANGED << streamProcess, streamRefCount, running, listeners >>
  /\ ctlFrame

\* ------------------------------------------------ controller specification
\* direct callers of the controller next to the hub with one connection
Sources == {"current", "orphan"}

Start       == \E ok \in BOOLEAN : streamRefCount < MaxRefs /\ ctlStart(ok)
Stop        == ctlStop
\* variant: a force stop also resets the flags of both holders
ForceStop_resetsHolders ==
  /\ ApplyCtl(forceStopLogStream(Ctl(streamRefCount, streamProcess)),
              <<"forceStop">>)
  /\ Quiet
  /\ logStreamActive' = FALSE
  /\ restLogStreamActive' = FALSE
  /\ UNCHANGED << listeners, bufVars, clients, subscriptions,
                  logUnsubscribe, pollingIntervals, pollVars, restIdleTimer,
                  timers, sinceTouch, gateBalance, open, hubBalance >>

ForceStop   == ctlForceStop
Register    == \E cb \in Callbacks : ctlOnLogEntry(cb)
Unregister  == \E cb \in Callbacks : ctlUnsubscribe(cb)
Writes      == processWrites
Exits       == processExits
ReaderEnds  == \E src \in Sources : readerEnds(src)
CtlSubscribe   == \E ws \in PollConn, f, ok \in BOOLEAN :
                    wsSubscribe(ws, {"logs"}, f, ok)
CtlUnsubscribe == \E ws \in PollConn, ok \in BOOLEAN :
                    wsUnsubscribe(ws, {"logs"}, ok)
CtlLogEntry == \E src \in Sources, failing \in SUBSET clients,
                  throwing \in SUBSET (listeners \ {"hub"}) :
                 appended < MaxRecords /\ readLogEntry(src, failing, throwing)

CtlNext == Start \/ Stop \/ ForceStop \/ Register \/ Unregister \/ Writes
             \/ Exits \/ ReaderEnds \/ PollOpen \/ CtlSubscribe
             \/ CtlUnsubscribe \/ PollClose \/ CtlLogEntry

CtlSpec == Init /\ [][CtlNext]_vars

\* ------------------------------------------------ force-stop specification
\* the server with both holders and a caller of forceStopLogStream
ForceNext == Next \/ ForceStop

ForceSpec == Init /\ [][ForceNext]_vars

\* ================================================================ claims
\* registered connections that count as subscribers of a topic
Subscribers(t) ==
  {c \in clients : t \in subscriptions[c] \/ "*" \in subscriptions[c]}
LogSubscribers == Subscribers("logs")

\* C1: in every reachable state the process handle is set if and only if
\* streamRefCount > 0, also after a start whose spawn failed.
C1_HandleIffCount ==
  (streamProcess # NullProc) <=> (streamRefCount > 0)

\* C2: the process is never killed while a holder remains: a step that
\* clears the handle leaves neither the hub's reference nor the idle gate's;
\* so an expiry while the hub holds, and a hub release while the gate is
\* active, both leave the process running.
C2_NoKillWhileHeld ==
  [][ (streamProcess # NullProc /\ streamProcess' = NullProc)
        => (~logStreamActive' /\ ~restLogStreamActive') ]_vars

\* the idle gate expired while the hub held the stream; the process runs on
C2_Witness ==
  /\ logStreamActive /\ hubBalance = 1
  /\ ~restLogStreamActive /\ gateBalance = 0
  /\ sinceTouch = IdleTimeoutMs /\ Pending = {}
  /\ streamProcess # NullProc /\ streamRefCount = 1

\* C3: after each subscribe, unsubscribe and close handler the hub holds a
\* stream reference exactly when a registered connection is subscribed to
\* "logs" or "*"; one start per 0->1 transition of that count and one stop
\* per 1->0 transition.
C3_HubTracksSubscribers ==
  [][ (Subscribe \/ Unsubscribe \/ Close)
        => /\ logStreamActive' = (LogSubscribers' # {})
           /\ (LogSubscribers = {} /\ LogSubscribers' # {})
                => hubBalance' = hubBalance + 1
           /\ (LogSubscribers # {} /\ LogSubscribers' = {})
                => hubBalance' = hubBalance - 1 ]_vars

\* C4: after a broadcast whose send failure evicted the last logs
\* subscriber, the hub has released the stream: logStreamActive is never
\* true with zero logs subscribers once the broadcast has returned.
C4_EvictionReleases ==
  (lastBroadcast # NoMsg /\ logStreamActive) => LogSubscribers # {}

\* C5: the idle gate pairs its calls: a touch starts only when the flag is
\* false, the expiry stops exactly once and clears the flag, at most one
\* expiry timer is pending, and starts minus stops issued by the gate is 1
\* when the flag is true and 0 when it is false.
C5_GatePairs ==
  /\ [](/\ Cardinality(Pending) <= 1
        /\ gateBalance = IF restLogStreamActive THEN 1 ELSE 0)
  /\ [][ /\ Touch => /\ gateBalance' - gateBalance
                          = IF restLogStreamActive THEN 0 ELSE 1
                     /\ streamRefCount' - streamRefCount
                          = IF restLogStreamActive THEN 0 ELSE 1
                     /\ restLogStreamActive'
         /\ Expire => /\ gateBalance' = gateBalance - 1
                      /\ streamRefCount' = Max(0, streamRefCount - 1)
                      /\ ~restLogStreamActive' ]_vars

\* the gate was touched, ran its full idle window and expired
C5_Witness ==
  /\ ~restLogStreamActive /\ gateBalance = 0
  /\ restIdleTimer # NoTimer /\ Pending = {}
  /\ sinceTouch = IdleTimeoutMs

\* C6: with no push subscriber the process runs for the whole 60000 ms
\* after the last touch (a touch at 30000 moves the stop to 90000) and is
\* stopped when those 60000 ms have passed.
C6_IdleExpiry ==
  (LogSubscribers = {} /\ sinceTouch >= 0)
    => /\ sinceTouch < IdleTimeoutMs => streamProcess # NullProc
       /\ (sinceTouch = IdleTimeoutMs /\ Pending = {})
            => streamProcess = NullProc

\* a successful fetch on topic t whose payload equals that of the previous
\* successful fetch on t
RepeatedFetch(t) ==
  /\ \E n \in TickNos, data \in Payloads, failing \in SUBSET clients :
       pollFetched(t, n, data, failing)
  /\ lastFetchJson[t] # <<>>
  /\ lastFetchJson'[t] = lastFetchJson[t]

\* C7 (as stated): on every poll-driven topic, system included, the second
\* of two consecutive successful fetches with the same serialized payload
\* broadcasts nothing.
C7_AllTopicsSuppressed ==
  [][ \A t \in PollTopics : RepeatedFetch(t) => lastBroadcast' = NoMsg ]_vars

\* C7 (amended): on services and processes the second of two consecutive
\* successful fetches with the same serialized payload broadcasts nothing
\* and leaves the cache alone; a fetch that differs from the cache is
\* broadcast once.
C7_CachedTopicsSuppressed ==
  [][ \A t \in {"services", "processes"} :
        /\ RepeatedFetch(t)
             => /\ lastBroadcast' = NoMsg
                /\ lastBcastTick'[t] = lastBcastTick[t]
                /\ UNCHANGED << lastServicesJson, lastProcessesJson >>
        /\ (lastFetchTick'[t] # lastFetchTick[t]
              /\ lastFetchJson'[t] # lastFetchJson[t])
             => lastBroadcast'.topic = t ]_vars

\* tick 1 of services was broadcast, tick 2 fetched the same payload and
\* was not
C7_Witness ==
  /\ lastBcastTick["services"] = 1
  /\ lastFetchTick["services"] = 2
  /\ lastFetchJson["services"] = lastServicesJson
  /\ lastBroadcast = NoMsg

\* C8: a tick of a poll topic with no subscriber (topic or "*") invokes no
\* provider; a tick with a subscriber invokes it once, so the first tick
\* after a subscribe does; nothing but a tick invokes a provider.
C8_SkipWhenIdle ==
  [][ \A t \in PollTopics :
        IF tickSeq'[t] # tickSeq[t]
          THEN IF Subscribers(t) = {}
                 THEN /\ providerCalls'[t] = providerCalls[t]
                      /\ inflight'[t] = inflight[t]
                 ELSE /\ providerCalls'[t] = providerCalls[t] + 1
                      /\ inflight'[t] = inflight[t] \cup {tickSeq'[t]}
          ELSE /\ providerCalls'[t] = providerCalls[t]
               /\ inflight'[t] \subseteq inflight[t] ]_vars

\* the first tick of services found no subscriber and was skipped; the
\* connection then subscribed through the wildcard and the next tick
\* invoked the provider
C8_Witness ==
  /\ tickSeq["services"] = 2
  /\ providerCalls["services"] = 1
  /\ inflight["services"] = {2}
  /\ "services" \notin subscriptions["c1"]
  /\ Subscribers("services") = {"c1"}

\* C9: a broadcast on topic T is sent to every registered connection whose
\* set holds T or "*" and to no other connection.
C9_Isolation ==
  [][ lastBroadcast' # NoMsg
        => /\ lastBroadcast'.to \subseteq clients
           /\ \A a \in clients :
                a \in lastBroadcast'.to
                  <=> (lastBroadcast'.topic \in subscriptions[a]
                         \/ "*" \in subscriptions[a]) ]_vars

\* a services snapshot went to c1 and not to c2, registered and subscribed
\* to logs only
C9_Witness ==
  /\ lastBroadcast.topic = "services"
  /\ lastBroadcast.to = {"c1"}
  /\ "c2" \in clients
  /\ subscriptions["c2"] = {"logs"}

\* C10: per topic, snapshots are broadcast in tick order: the tick of a
\* broadcast snapshot is never lower than that of an earlier broadcast.
C10_TickOrder ==
  [][ \A t \in PollTopics : lastBcastTick'[t] >= lastBcastTick[t] ]_vars

\* the last k of the records numbered 1..total, in arrival order
LastRecords(total, k) == [i \in 1..k |-> total - k + i]

\* C11: the ring buffer always holds the last min(appended, MAX_BUFFER)
\* records in arrival order, so it is never longer than MAX_BUFFER in a
\* state getRecentLogs or a listener can see, and after MAX_BUFFER + 50
\* appends exactly the last MAX_BUFFER records remain
C11_RingBuffer ==
  /\ Len(logBuffer) <= MAX_BUFFER
  /\ logBuffer = LastRecords(appended, Min(appended, MAX_BUFFER))

C11_Witness ==
  /\ appended = MAX_BUFFER + 50
  /\ Len(logBuffer) = MAX_BUFFER
  /\ logBuffer[1] = appended - MAX_BUFFER + 1
  /\ logBuffer[MAX_BUFFER] = appended

\* the last min(k, length) records of buf
LastK(buf, k) == SubSeq(buf, Len(buf) - Min(k, Len(buf)) + 1, Len(buf))

\* C12: for every 0 <= k <= MAX_BUFFER, getRecentLogs(k) returns exactly
\* the last min(k, length) buffered records in arrival order (none for
\* k = 0) and leaves the ring buffer unchanged
C12_RecentLastK ==
  [][ lastRecent' # NoRecent
        => /\ lastRecent'.logs = LastK(logBuffer, lastRecent'.count)
           /\ UNCHANGED bufVars ]_vars

\* C13: streamRefCount is never negative, and a stopLogStream at count
\* zero leaves the count at zero and the process handle as it was
C13_FloorAtZero ==
  [][ /\ streamRefCount' >= 0
      /\ lastEvent' = "stopAtZero" => /\ streamRefCount' = 0
                                      /\ streamProcess' = streamProcess ]_vars

C13_Witness == lastEvent = "stopAtZero" /\ streamRefCount = 0

\* C14: a process is spawned only when no handle is held, so at most one
\* log-stream process and one reader loop run at any time; a start while a
\* process is held only increments the count
C14_SingleProcess ==
  [][ /\ running' <= 1
      /\ loops' <= 1
      /\ running' > running => streamProcess = NullProc
      /\ (streamRefCount' > streamRefCount /\ streamProcess # NullProc)
           => /\ streamRefCount' = streamRefCount + 1
              /\ UNCHANGED << streamProcess, running, loops >> ]_vars

C14_Witness ==
  /\ lastEvent = "startHeld"
  /\ streamRefCount >= 2
  /\ running = 1
  /\ loops = 1

\* C15: once a stop has killed the process and cleared the handle, no
\* record read from that instance is appended to the ring buffer or
\* delivered to a listener, a later restart included
C15_NoRecordAfterKill ==
  [][ (orphan /\ ~orphan')
        => (UNCHANGED bufVars /\ lastDelivery' = NoDelivery) ]_vars

\* C16: when the send to one connection fails during a broadcast, that
\* connection is removed from the registry, and every other registered
\* connection subscribed to the topic is still sent the message in the
\* same call and stays registered
C16_EvictOnlyFailed ==
  [][ lastBroadcast' # NoMsg
        => LET failed == clients \ clients'
           IN  /\ clients' \subseteq clients
               /\ failed \subseteq lastBroadcast'.to
               /\ \A c \in Subscribers(lastBroadcast'.topic) \ failed :
                    c \in lastBroadcast'.to /\ c \in clients' ]_vars

\* the broadcast was sent to c1 and c2; the send to c1 threw, c1 is evicted
\* and c2 is still registered
C16_Witness ==
  /\ lastBroadcast.to = {"c1", "c2"}
  /\ clients = {"c2"}
  /\ "c1" \in open

\* topics with a payload cache
CachedTopics == {"services", "processes"}

\* C17: when the provider call of a services or processes tick fails, the
\* caches are unchanged, nothing is broadcast for that tick, the timer stays
\* installed, and the next tick that finds a subscriber calls the provider
\* again
C17_ProviderFailure ==
  [][ \A t \in CachedTopics :
        /\ (inflight'[t] # inflight[t] /\ tickSeq'[t] = tickSeq[t]
              /\ lastFetchTick'[t] = lastFetchTick[t])
             => /\ UNCHANGED << lastServicesJson, lastProcessesJson,
                                lastBcastTick, clients, pollingIntervals >>
                /\ lastBroadcast' = NoMsg
                /\ t \in pollingIntervals'
        /\ (tickSeq'[t] # tickSeq[t] /\ Subscribers(t) # {})
             => providerCalls'[t] = providerCalls[t] + 1 ]_vars

\* the call of the first services tick failed (no fetch ever succeeded) and
\* the second tick has called the provider again
C17_Witness ==
  /\ providerCalls["services"] = 2
  /\ inflight["services"] = {2}
  /\ lastFetchTick["services"] = 0
  /\ lastServicesJson = <<>>

\* C18: every parsed record is appended to the ring buffer and, in the same
\* step, delivered to every listener registered at that moment, whether or
\* not some of them throw; when the hub's listener is among them the record
\* is broadcast as one "update" on "logs"
C18_Delivery ==
  [][ appended' # appended
        => /\ appended' = appended + 1
           /\ logBuffer'[Len(logBuffer')] = appended'
           /\ lastDelivery'.to = listeners
           /\ lastBroadcast' =
                IF "hub" \in listeners
                  THEN [topic |-> "logs", type |-> "update",
                        to |-> Subscribers("logs")]
                  ELSE NoMsg ]_vars

\* cb1 threw, and cb2 and the hub's listener were called all the same; the
\* hub broadcast the record to c1
C18_Witness ==
  /\ lastDelivery.threw = {"cb1"}
  /\ lastDelivery.to = {"cb1", "cb2", "hub"}
  /\ lastBroadcast.topic = "logs"
  /\ lastBroadcast.to = {"c1"}

\* C19: startLogStream, stopLogStream and forceStopLogStream leave the
\* listener set and the ring buffer unchanged (the hub's listener leaves
\* only through its own unsubscribe closure), so a listener stays
\* registered across stop/restart cycles and buffered records survive a stop
C19_CallsKeepListeners ==
  [][ (streamRefCount' # streamRefCount \/ streamProcess' # streamProcess)
        => /\ UNCHANGED bufVars
           /\ listeners' \cap Callbacks = listeners \cap Callbacks
           /\ logUnsubscribe' = logUnsubscribe => listeners' = listeners
      ]_vars

\* a process was killed with a line in its pipe and a new one runs: cb1 is
\* registered and the buffer holds a record
C19_Witness ==
  /\ orphan
  /\ running = 1
  /\ streamRefCount = 1
  /\ "cb1" \in listeners
  /\ logBuffer # <<>>

\* C20: when the process ends on its own, or its output reports done or a
\* read fails, streamRefCount and the handle are unchanged and nothing is
\* spawned; a start while the stale handle is held spawns nothing
C20_NoRestart ==
  [][ /\ lastEvent' \in {"exit", "readerEnd"}
           => /\ UNCHANGED << streamRefCount, streamProcess >>
              /\ running' <= running
              /\ loops' <= loops
      /\ (streamRefCount' > streamRefCount /\ streamProcess # NullProc
            /\ running = 0)
           => /\ streamProcess' = streamProcess
              /\ running' = 0
              /\ loops' = loops ]_vars

\* the process ended, its reader loop saw the end, and a start then
\* returned early on the stale handle
C20_Witness ==
  /\ lastEvent = "startHeld"
  /\ streamProcess # NullProc
  /\ running = 0
  /\ loops = 0
  /\ streamRefCount >= 2

\* the step handles a message of connection c
MessageOf(c) == lastIn'.n # lastIn.n /\ lastIn'.ws = c

\* the messages the step sends to connection c
NewlySent(c) ==
  {sent'[c][i] : i \in (Len(sent[c]) + 1)..Len(sent'[c])}

\* C21: the handler of a subscribe sends the connection the "subscribed"
\* acknowledgment and nothing else, and the data a connection is sent in a
\* step is that of the broadcast call made in that step, to which it was
\* subscribed when the call was made: never an earlier broadcast
C21_OnlyFuture ==
  [][ \A c \in observed :
        /\ (MessageOf(c) /\ lastIn'.type = "subscribe")
             => /\ Len(sent'[c]) = Len(sent[c]) + 1
                /\ \A m \in NewlySent(c) : m.kind = "subscribed"
                /\ lastBroadcast' = NoMsg
        /\ \A m \in NewlySent(c) :
             m.kind = "data"
               => /\ bcastCalls' = bcastCalls + 1
                  /\ m.call = bcastCalls'
                  /\ c \in Subscribers(m.topic) ]_vars

\* a log update was broadcast before c1 subscribed; c1 was sent the
\* greeting, the acknowledgment and the second update only
C21_Witness ==
  /\ bcastCalls = 2
  /\ sent["c1"] = << Connected, Subscribed({"logs"}, TRUE),
                     Data("logs", 2, TRUE) >>

\* C22: the data messages sent to a connection are in the order of the
\* broadcast calls, and what was sent is never reordered
C22_Fifo ==
  \A c \in observed :
    \A i, j \in DOMAIN sent[c] :
      (i < j /\ sent[c][i].kind = "data" /\ sent[c][j].kind = "data")
        => sent[c][i].call < sent[c][j].call

C22_Witness ==
  \E i, j \in DOMAIN sent["c1"] :
    /\ i < j
    /\ sent["c1"][i].kind = "data"
    /\ sent["c1"][j].kind = "data"

\* C24: a subscribe to topics the connection already holds leaves its
\* subscription set, the registry, the hub's stream reference and
\* streamRefCount unchanged
C24_SubscribeIdempotent ==
  [][ \A c \in observed :
        (MessageOf(c) /\ lastIn'.type = "subscribe" /\ lastIn'.isArray
          /\ lastIn'.topics \subseteq subscriptions[c])
          => UNCHANGED << subscriptions, clients, logStreamActive,
                          streamRefCount >> ]_vars

\* C25: every subscribe message is answered with one "subscribed"
\* acknowledgment that lists the whole subscription set of the connection
\* after the topics were added
C25_AckWholeSet ==
  [][ \A c \in observed :
        (MessageOf(c) /\ lastIn'.type = "subscribe")
          => /\ Len(sent'[c]) = Len(sent[c]) + 1
             /\ \A m \in NewlySent(c) :
                  m.kind = "subscribed" /\ m.topics = subscriptions'[c]
      ]_vars

\* c1 held logs and subscribed to services: the acknowledgment lists both
C25_Witness ==
  /\ lastIn.n = 2
  /\ lastIn.topics = {"services"}
  /\ Len(sent["c1"]) = 3
  /\ sent["c1"][3] = Subscribed({"logs", "services"}, TRUE)

\* C26: open registers the connection with an empty subscription set and
\* sends it one "connected" message; a connection with an empty set is a
\* subscriber of no topic and is sent no broadcast
C26_OpenEmpty ==
  [][ \A c \in Conn :
        /\ (c \in open' /\ c \notin open)
             => /\ c \in clients'
                /\ subscriptions'[c] = {}
                /\ c \in observed
                     => (Len(sent'[c]) = Len(sent[c]) + 1
                           /\ NewlySent(c) = {Connected})
        /\ subscriptions[c] = {}
             => /\ \A t \in Topics : c \notin Subscribers(t)
                /\ c \notin lastBroadcast'.to
                /\ \A m \in NewlySent(c) : m.kind # "data" ]_vars

\* a log update went to c2 while c1 was registered with an empty set; c1
\* has been sent its greeting only
C26_Witness ==
  /\ lastBroadcast.to = {"c2"}
  /\ "c1" \in clients
  /\ subscriptions["c1"] = {}
  /\ sent["c1"] = << Connected >>

\* unparseable text, an unknown type, or a subscribe/unsubscribe whose
\* topics field is not a list
Malformed(in) ==
  \/ in.type \in {"unparseable", "other"}
  \/ in.type \in {"subscribe", "unsubscribe"} /\ ~in.isArray

\* C27: a malformed client message is ignored: the registry, every
\* subscription set, the hub's stream reference and streamRefCount are
\* unchanged and nothing is sent in reply
C27_MalformedIgnored ==
  [][ \A c \in observed :
        (MessageOf(c) /\ Malformed(lastIn'))
          => /\ UNCHANGED << clients, subscriptions, logStreamActive,
                             streamRefCount >>
             /\ sent'[c] = sent[c] ]_vars

\* C23: close removes the connection from the registry and re-evaluates
\* the stream demand in the same step (the hub holds the stream exactly
\* when a registered connection is subscribed to logs), and no broadcast
\* sends to a connection that is closed, whatever its subscription set
C23_CloseUnregisters ==
  [][ /\ \A ws \in Conn :
           (ws \in open /\ ws \notin open')
             => /\ ws \notin clients'
                /\ logStreamActive' = (LogSubscribers' # {})
      /\ clients' \subseteq open'
      /\ lastBroadcast'.to \subseteq open ]_vars

\* c1 closed while subscribed to services; the next snapshot went to c2 only
C23_Witness ==
  /\ "c1" \notin open
  /\ "services" \in subscriptions["c1"]
  /\ lastBroadcast.topic = "services"
  /\ lastBroadcast.to = {"c2"}

\* C28: forceStopLogStream, from any state, leaves streamRefCount = 0 and
\* no process handle, whatever the count was, and a process that was
\* running under the handle is killed
C28_ForceStopResets ==
  [][ ForceStop
        => /\ streamRefCount' = 0
           /\ streamProcess' = NullProc
           /\ lastEvent' = "forceStop"
           /\ (streamProcess # NullProc /\ running > 0)
                => running' = running - 1 ]_vars

\* a force stop was made while the hub held the stream and the process ran
C28_Witness ==
  /\ lastEvent = "forceStop"
  /\ logStreamActive
  /\ LogSubscribers # {}
  /\ streamRefCount = 0
  /\ streamProcess = NullProc
  /\ running = 0

\* C29: the log-stream process does not stay running without demand: when
\* no registered connection is subscribed to logs and no idle timer is
\* pending (nothing is left that would stop it later), the process is
\* stopped
C29_NoProcessWithoutDemand ==
  (LogSubscribers = {} /\ Pending = {}) => streamProcess = NullProc

\* C30: with no forceStopLogStream, streamRefCount is the number of holders
\* whose flag is set (the hub's logStreamActive and the idle gate's
\* restLogStreamActive), so it is 0, 1 or 2 however many connections
\* subscribe to logs and however many touches are made
C30_CountIsHolders ==
  /\ streamRefCount = (IF logStreamActive THEN 1 ELSE 0)
                        + (IF restLogStreamActive THEN 1 ELSE 0)
  /\ streamRefCount \in 0..2

\* both holders hold the stream while two connections are subscribed
C30_Witness ==
  /\ Cardinality(LogSubscribers) = 2
  /\ logStreamActive
  /\ restLogStreamActive
  /\ streamRefCount = 2

\* the cached serialization of a topic
Cache(t) == IF t = "services" THEN lastServicesJson ELSE lastProcessesJson

\* C31: the services and processes caches are changed by nothing but a
\* fetch that differs from them (not by open, subscribe, unsubscribe or
\* close), and a fetch that serializes to the cached value broadcasts
\* nothing, also to a connection that subscribed after the cached value
\* was broadcast
C31_CacheOutlivesSubscribers ==
  [][ \A t \in CachedTopics :
        /\ lastFetchTick'[t] = lastFetchTick[t] => Cache(t)' = Cache(t)
        /\ (lastFetchTick'[t] # lastFetchTick[t]
              /\ lastFetchJson'[t] = Cache(t))
             => /\ lastBroadcast' = NoMsg
                /\ Cache(t)' = Cache(t)
                /\ \A c \in observed : sent'[c] = sent[c]
        /\ lastBroadcast'.topic = t => Cache(t)' # Cache(t) ]_vars

\* the services snapshot of tick 1 was sent to c1, which closed, came back
\* and subscribed again; tick 2 fetched the cached value and c1 was sent
\* nothing
C31_Witness ==
  /\ sent["c1"] = << Connected, Subscribed({"services"}, TRUE),
                     Data("services", 1, TRUE), Connected,
                     Subscribed({"services"}, TRUE) >>
  /\ lastFetchTick["services"] = 2
  /\ lastFetchJson["services"] = lastServicesJson
  /\ inflight["services"] = {}
  /\ lastBroadcast = NoMsg

\* C32: when the send of the "subscribed" acknowledgment fails in a
\* subscribe that added logs or "*" to the connection's set, the stream
\* demand is still re-evaluated: after the handler the hub holds the stream
\* exactly when a registered connection is subscribed to logs
C32_AckFailureReevaluates ==
  [][ \A c \in observed :
        (/\ MessageOf(c)
         /\ lastIn'.type = "subscribe"
         /\ \E m \in NewlySent(c) : m.kind = "subscribed" /\ ~m.ok
         /\ (subscriptions'[c] \ subscriptions[c]) \cap {"logs", "*"} # {})
          => logStreamActive' = (LogSubscribers' # {}) ]_vars

\* C33: the hub's listener is registered exactly when logStreamActive is
\* true, and it is registered only when it is not yet registered; so a
\* record read from the process is broadcast as one "update" on "logs"
\* while a registered connection is subscribed to logs, and is only
\* buffered while the idle gate alone holds the stream
C33_OneHubListener ==
  [][ /\ ("hub" \in listeners') = logStreamActive'
      /\ ("hub" \in listeners' /\ "hub" \notin listeners)
           => ~logStreamActive
      /\ appended' # appended
           => /\ LogSubscribers # {}
                   => /\ lastBroadcast'.topic = "logs"
                      /\ lastBroadcast'.type = "update"
                      /\ lastBroadcast'.to = LogSubscribers
              /\ (~logStreamActive /\ restLogStreamActive)
                   => /\ lastBroadcast' = NoMsg
                      /\ logBuffer' # logBuffer ]_vars

\* registered connections that hold the wildcard but not logs
WildcardOnly == {c \in clients : "*" \in subscriptions[c]
                                   /\ "logs" \notin subscriptions[c]}

\* C34: the wildcard counts as stream demand: after a subscribe or
\* unsubscribe that leaves a registered connection holding "*" without
\* logs the hub holds the stream, and it makes no stopLogStream call while
\* a registered connection holds "*" or logs
C34_WildcardIsDemand ==
  [][ /\ (subscriptions' # subscriptions /\ WildcardOnly' # {})
           => logStreamActive'
      /\ hubBalance' < hubBalance
           => \A c \in clients' : "logs" \notin subscriptions'[c]
                                     /\ "*" \notin subscriptions'[c] ]_vars

\* the step is a subscribe or unsubscribe that changed a subscription set,
\* or a close
HubEvent ==
  /\ open' \subseteq open
  /\ subscriptions' # subscriptions \/ open' # open

\* C35: stopPolling leaves no poll timer, so no later tick invokes a
\* provider, and releases the hub's stream reference once if the hub held
\* one (logStreamActive false, listener removed) without changing the
\* registry or the subscription sets; the next subscribe, unsubscribe or
\* close with a logs subscriber still registered makes the hub hold the
\* stream again
C35_AfterStopPolling ==
  [][ /\ StopPolling
           => /\ pollingIntervals' = {}
              /\ ~logStreamActive'
              /\ "hub" \notin listeners'
              /\ hubBalance' = hubBalance
                                 - (IF logStreamActive THEN 1 ELSE 0)
              /\ UNCHANGED << clients, subscriptions >>
      /\ pollingIntervals = {}
           => /\ pollingIntervals' = {}
              /\ providerCalls' = providerCalls
      /\ (pollingIntervals = {} /\ HubEvent /\ LogSubscribers' # {})
           => logStreamActive' ]_vars

\* C36: forceStopLogStream leaves the flags of the hub and of the idle gate
\* as they were; a holder whose flag is set issues no start, so the process
\* is spawned again only by a holder that re-acquires; and a holder's stop
\* decrements the count whoever holds it, killing the process when the
\* count reaches zero although the other holder's flag is set
C36_ForceStopKeepsFlags ==
  [][ /\ ForceStop
           => UNCHANGED << logStreamActive, logUnsubscribe, listeners,
                           restLogStreamActive, restIdleTimer, timers,
                           hubBalance, gateBalance >>
      /\ hubBalance' > hubBalance => ~logStreamActive
      /\ gateBalance' > gateBalance => ~restLogStreamActive
      /\ (streamProcess = NullProc /\ streamProcess' # NullProc)
           => \/ hubBalance' > hubBalance /\ ~logStreamActive
              \/ gateBalance' > gateBalance /\ ~restLogStreamActive
      /\ (hubBalance' < hubBalance \/ gateBalance' < gateBalance)
           => /\ streamRefCount' = Max(0, streamRefCount - 1)
              /\ streamRefCount' = 0 => streamProcess' = NullProc ]_vars

\* the hub held the stream at a force stop, the idle gate then started a
\* process, and the hub's stop killed it: the gate is active with its timer
\* pending, the count is zero and no process runs
C36_Witness ==
  /\ restLogStreamActive
  /\ Pending # {}
  /\ gateBalance = 1
  /\ ~logStreamActive
  /\ hubBalance = 0
  /\ streamRefCount = 0
  /\ streamProcess = NullProc
  /\ running = 0
  /\ lastEvent = "none"

====
